---- MODULE Spec2Model ----
(***************************************************************************)
(* A model of breeze-mongodb's MongoSaveHandler (mongoSaveHandler.js): one *)
(* handler instance processing one saveChanges request against a mongodb   *)
(* driver Db whose callbacks and outcomes are chosen by the environment.   *)
(*                                                                         *)
(* JavaScript runs each handler to completion, so every action below is    *)
(* one run-to-completion step.  The only place where a step is cut is the  *)
(* dispatch loop of _saveCollections: a store may run a callback while the *)
(* loop is still issuing calls (the code's own comment: "might not have    *)
(* sent all mongoDb calls yet"), so the loop advances one _saveCollection  *)
(* at a time and store callbacks may run in between.                       *)
(*                                                                         *)
(* The handler's methods are operators from a handler record h to the      *)
(* record after the call; h.thrown carries an exception in flight.         *)
(***************************************************************************)
EXTENDS Naturals, Sequences, FiniteSets, TLC

VARIABLES
    pc,                      \* "new" | "dispatching" (inside the forEach of _saveCollections) | "idle"
    entities,                \* this.entities: the request's entities (references into ents)
    ents,                    \* the entity objects: ix -> [f: field -> value, hasAspect]
    aspect,                  \* the entityAspect objects: ix -> aspect
    metadata,                \* this.metadata: type name -> entity type
    saveMap,                 \* this.saveMap: insertion-ordered <<[name, list]>>
    saveResult,              \* this.saveResult: [created, errors]
    insertedKeys,            \* this._insertedKeys
    updatedKeys,             \* this._updatedKeys
    deletedKeys,             \* this._deletedKeys
    keyMappings,             \* this._keyMappings
    entitiesCreatedOnServer, \* this._entitiesCreatedOnServer
    isDone,                  \* this._isDone
    allSaveCallsSent,        \* this._allSaveCallsSent
    saveCountPending,        \* this._saveCountPending
    possibleFixupMap,        \* this._possibleFixupMap: insertion-ordered <<[key, fixups]>>
    collectionSaveDocs,      \* saveCore's local array, alive while the loop runs
    nextCd,                  \* index of the next element the dispatch forEach visits
    run,                     \* number of saveCore() runs started
    genCount,                \* number of keys generated (createGuid / new ObjectID)
    calls,                   \* store calls issued and not yet reported
    issued,                  \* every store call issued so far
    callbackLog,             \* every invocation of this.callback: <<[error, saveResult]>>
    beforeSaveEntity,        \* the interceptor: "undefined" or its behaviour
    beforeSaveEntities,      \* the interceptor: [defined, script]
    afterSaveEntities,       \* the interceptor: [defined, script]
    beforeRest,              \* what the running beforeSaveEntities has still to do
    inTry,                   \* beforeSaveEntities is still inside save()'s try block
    afterPending,            \* afterSaveEntities invocations that returned without finishing
    afterCalls,              \* number of _invokeCompletedCallback() runs
    callbackThrows,          \* whether this.callback throws when invoked
    reported,                \* every outcome the store has reported: <<[call, outcome]>>
    hookLog,                 \* every step the whole-batch interceptors have taken
    reqBody                  \* reqBody.entities as the constructor received them

vars == <<pc, entities, ents, aspect, metadata, saveMap, saveResult, insertedKeys,
          updatedKeys, deletedKeys, keyMappings, entitiesCreatedOnServer, isDone,
          allSaveCallsSent, saveCountPending, possibleFixupMap, collectionSaveDocs,
          nextCd, run, genCount, calls, issued, callbackLog, beforeSaveEntity,
          beforeSaveEntities, afterSaveEntities, beforeRest, inTry, afterPending,
          afterCalls, callbackThrows, reported, hookLog, reqBody>>

---------------------------------------------------------------------------
(* Bounds of the model *)

MaxEntities == 2     \* entities in one request
MaxKeys == 2         \* distinct client-side key values
MaxServerEntities == 1  \* addToSaveMap() calls before save()
MaxInterceptedEntities == 1  \* entities in a request saved under a whole-batch interceptor

(* Program constant *)
MONGO_ERROR_CODE_DUP_KEY == 11000

---------------------------------------------------------------------------
(* JavaScript values.  A string's content is <<tag, n>>: tag "hex" is a    *)
(* string of 24 hex characters, "guid" any other non-empty string; "newhex"*)
(* and "newguid" are contents produced by the key generators.              *)

Null == [t |-> "null", s |-> <<>>]
Undefined == [t |-> "undefined", s |-> <<>>]
Str(c) == [t |-> "string", s |-> c]
ObjectIDOf(c) == [t |-> "ObjectID", s |-> c]
DateOf(c) == [t |-> "Date", s |-> c]

\* val == null
IsNullish(val) == val.t \in {"null", "undefined"}

\* the truthiness of val in `dp.isFk && val`
Truthy(val) == ~IsNullish(val) /\ val # Str(<<>>)

\* the property name a value becomes when it indexes an object (String(val));
\* ObjectID.prototype.toString is toHexString
PropertyKey(val) ==
    CASE val.t = "null" -> <<"null">>
      [] val.t = "undefined" -> <<"undefined">>
      [] OTHER -> val.s

IsHexString(val) == val.t = "string" /\ val.s # <<>> /\ val.s[1] \in {"hex", "newhex"}

\* an exception or error object: [name, statusCode, code, message, saveResult]
Error(name, statusCode, message) ==
    [name |-> name, statusCode |-> statusCode, code |-> 0, message |-> message,
     saveResult |-> <<>>]

NoThrow == <<>>
Throw(h, err) == [h EXCEPT !.thrown = <<err>>]
Caught(h) == [h EXCEPT !.thrown = NoThrow]
Throws(h) == h.thrown # NoThrow

\* the saveResult object as a caller of the terminal callback reads it: the key
\* lists are the handler's own arrays (aliases, not copies)
SaveResultOf(h) ==
    [created |-> h.saveResult.created,
     insertedKeys |-> IF h.saveResult.created THEN h.insertedKeys ELSE <<>>,
     updatedKeys |-> IF h.saveResult.created THEN h.updatedKeys ELSE <<>>,
     deletedKeys |-> IF h.saveResult.created THEN h.deletedKeys ELSE <<>>,
     keyMappings |-> IF h.saveResult.created THEN h.keyMappings ELSE <<>>,
     entitiesCreatedOnServer |->
         IF h.saveResult.created THEN h.entitiesCreatedOnServer ELSE <<>>,
     errors |-> h.saveResult.errors]

---------------------------------------------------------------------------
(* The terminal callback and _raiseError *)

\* this.callback(error, saveResult): the caller's function; it may throw
callback(h, error, sr) ==
    LET h1 == [h EXCEPT !.callbackLog =
                   Append(@, [error |-> error, saveResult |-> sr, run |-> h.run])]
    IN IF h.callbackThrows
       THEN Throw(h1, Error("Error", 0, <<"callback failed">>))
       ELSE h1

raiseError(h, error) ==
    IF h.isDone THEN h
    ELSE callback([h EXCEPT !.isDone = TRUE], <<error>>, <<>>)

---------------------------------------------------------------------------
(* Insertion-ordered JavaScript objects used as maps: <<[name, list]>> *)

MapHas(m, k) == \E i \in 1 .. Len(m) : m[i].name = k
MapIndex(m, k) == CHOOSE i \in 1 .. Len(m) : m[i].name = k
MapGet(m, k) == m[MapIndex(m, k)].list
MapKeys(m) == [i \in 1 .. Len(m) |-> m[i].name]
\* the `if (group) group.push(v) else groups[key] = [v]` idiom
MapPush(m, k, v) ==
    IF MapHas(m, k)
    THEN [m EXCEPT ![MapIndex(m, k)].list = Append(@, v)]
    ELSE Append(m, [name |-> k, list |-> <<v>>])

\* how a value reads inside an error message
Show(val) == ToString(PropertyKey(val))

---------------------------------------------------------------------------
(* _forEach and _groupBy *)

\* _forEach(src, f, errPrefix): [h |-> the handler afterwards, stop |-> its result]
forEach(h, src, f(_, _), errPrefix(_, _)) ==
    LET step[i \in 0 .. Len(src)] ==
            IF i = 0 THEN [h |-> h, stop |-> h.isDone]
            ELSE LET p == step[i - 1] IN
                 IF p.stop THEN p
                 ELSE LET r == f(p.h, src[i]) IN
                      IF Throws(r)
                      THEN LET err == r.thrown[1]
                               pre == errPrefix(Caught(r), src[i])
                               msg == (IF pre = <<>> THEN <<"Save failed">> ELSE pre)
                                          \o <<" with error: ">> \o err.message
                           IN [h |-> raiseError(Caught(r), [err EXCEPT !.message = msg]),
                               stop |-> TRUE]
                      ELSE [h |-> r, stop |-> r.isDone]
    IN step[Len(src)]

NoPrefix(h, x) == <<>>

\* _groupBy(arr, keyFn, groups = this.saveMap, errPrefix); keyFn gives <<>> for undefined
groupBy(h, arr, keyFn(_, _), errPrefix(_, _)) ==
    LET grouper(g, v) ==
            LET key == keyFn(g, v) IN
            IF Throws(key.h) THEN key.h
            ELSE IF key.key = <<>> THEN key.h
            ELSE [key.h EXCEPT !.saveMap = MapPush(@, key.key[1], v)]
    IN forEach(h, arr, grouper, errPrefix)

\* this.beforeSaveEntity(e): the developer's predicate, which may throw
beforeSaveEntityCall(h, e) ==
    LET verdict == h.beforeSaveEntity.verdict[e] IN
    CASE verdict = "throw" ->
             [h |-> Throw(h, Error("Error", 0, <<"beforeSaveEntity failed">>)), result |-> FALSE]
      [] verdict = "keep" -> [h |-> h, result |-> TRUE]
      [] OTHER -> [h |-> h, result |-> FALSE]

\* _buildSaveMap grouping with kf1 whether or not beforeSaveEntity is defined
buildSaveMapOfAll(h) ==
    LET kf1(g, e) == [h |-> g, key |-> <<g.aspect[e].entityTypeName>>]
        errPrefix(g, e) == <<"save failed in 'beforeSaveEntity'">>
    IN groupBy([h EXCEPT !.saveMap = <<>>], h.entities, kf1, errPrefix)

buildSaveMap(h) ==
    LET kf1(g, e) == [h |-> g, key |-> <<g.aspect[e].entityTypeName>>]
        kf2(g, e) == LET b == beforeSaveEntityCall(g, e) IN
                     IF Throws(b.h) THEN [h |-> b.h, key |-> <<>>]
                     ELSE IF b.result THEN kf1(g, e)
                     ELSE [h |-> g, key |-> <<>>]
        keyFn(g, e) == IF g.beforeSaveEntity.defined THEN kf2(g, e) ELSE kf1(g, e)
        errPrefix(g, e) == <<"save failed in 'beforeSaveEntity'">>
    IN groupBy([h EXCEPT !.saveMap = <<>>], h.entities, keyFn, errPrefix)

\* metadata.defaultNamespace is not set in the modelled requests
qualifyTypeName(h, entityTypeName) == entityTypeName

\* addToSaveMap(entity, entityTypeName, entityState); entity is a new object
\* given by its fields, entityState is <<>> when the argument is omitted
addToSaveMap(h, fields, entityTypeName, entityState) ==
    LET typeName == qualifyTypeName(h, entityTypeName)
        ix == Len(h.ents) + 1
        asp == [entityTypeName |-> typeName,
                entityState |-> IF entityState = <<>> THEN "Added" ELSE entityState[1],
                wasCreatedOnServer |-> TRUE,
                originalValuesMap |-> <<>>,
                forceUpdate |-> FALSE,
                entityKey |-> <<>>]
    IN [h EXCEPT !.ents = Append(@, [f |-> fields, hasAspect |-> TRUE]),
                 !.aspect = Append(@, asp),
                 !.saveMap = MapPush(@, typeName, ix)]

---------------------------------------------------------------------------
(* _reviewMetadata *)

reviewProperties(h, typeName, dp) ==
    LET h1 == IF dp.name = "_id"
              THEN [h EXCEPT !.metadata[typeName].key = <<dp>>,
                             !.metadata[typeName].keyDataType = dp.dataType]
              ELSE h
    IN IF dp.name = "_id" /\ dp.isFk
       THEN raiseError(h1, Error("Error", 0,
                <<"The '", typeName, "._id' property cannot itself be a foreignKey in a mongoDb - Please check your metadata.">>))
       ELSE IF dp.isConcurrencyProp
            THEN [h1 EXCEPT !.metadata[typeName].concurrencyProp = <<dp>>]
            ELSE h1

reviewType(h, typeName) ==
    LET entityType == h.metadata[typeName] IN
    IF ~entityType.defined
    THEN raiseError(h, Error("", 400,
             <<"Unable to locate metadata for an EntityType named: ", typeName>>))
    ELSE LET h1 == [h EXCEPT !.metadata[typeName].collectionName =
                        IF @ # "" THEN @ ELSE entityType.defaultResourceName]
             prop(g, dp) == reviewProperties(g, typeName, dp)
         IN forEach(h1, entityType.dataProperties, prop, NoPrefix).h

reviewMetadata(h) == forEach(h, MapKeys(h.saveMap), reviewType, NoPrefix)

---------------------------------------------------------------------------
(* _coerceData *)

\* ObjectID.createFromHexString(val): throws unless val is a string of 24 hex characters
createFromHexString(h, val) ==
    IF IsHexString(val)
    THEN [h |-> h, value |-> ObjectIDOf(val.s)]
    ELSE [h |-> Throw(h, Error("Error", 0,
              <<"Argument passed in must be a single String of 12 bytes or a string of 24 hex characters">>)),
          value |-> Undefined]

\* the errPrefix function of _coerceData applied to x (x's _id is given)
coerceErrPrefix(h, typeName, id) ==
    <<"Save failed checking data for ", h.metadata[typeName].entityTypeName, ".id_: ", Show(id)>>

\* `props.push(entityType.key)` when the type declares no _id property
UndefinedDp == [name |-> "undefined", dataType |-> "", isFk |-> FALSE, isConcurrencyProp |-> FALSE]

\* the inner function coerceProp(dp) of _coerceData(entity, entityType)
coerceProp(h, ix, typeName, deleteNulls, dp) ==
    LET dpn == dp.name
        val == IF dpn \in DOMAIN h.ents[ix].f THEN h.ents[ix].f[dpn] ELSE Undefined
        fixupEntry == [id |-> h.ents[ix].f["_id"], fkProp |-> dpn]
        h1 == IF dp.isFk /\ Truthy(val)
              THEN [h EXCEPT !.possibleFixupMap = MapPush(@, PropertyKey(val), fixupEntry)]
              ELSE h
    IN IF dp = UndefinedDp
       THEN Throw(h, Error("TypeError", 0, <<"Cannot read property 'dataType' of undefined">>))
       ELSE IF IsNullish(val)
       THEN IF deleteNulls THEN [h1 EXCEPT !.ents[ix].f[dpn] = Undefined] ELSE h1
       ELSE IF dp.dataType = "MongoObjectId"
            THEN LET c == createFromHexString(h1, val) IN
                 IF Throws(c.h)
                 \* the catch block reads `e`, which no scope defines
                 THEN Throw(Caught(c.h), Error("ReferenceError", 0, <<"e is not defined">>))
                 ELSE [h1 EXCEPT !.ents[ix].f[dpn] = c.value]
            ELSE IF dp.dataType \in {"DateTime", "DateTimeOffset"}
                 THEN [h1 EXCEPT !.ents[ix].f[dpn] = DateOf(val.s)]
                 ELSE h1

coerceData(h, ix, typeName) ==
    LET entityType == h.metadata[typeName]
        asp == h.aspect[ix]
        dps == entityType.dataProperties
        inOvm(dp) == dp.name \in DOMAIN asp.originalValuesMap[1]
        keyProp == IF entityType.key = <<>> THEN <<UndefinedDp>> ELSE entityType.key
        run1(props, deleteNulls) ==
            LET f(g, dp) == coerceProp(g, ix, typeName, deleteNulls, dp)
                \* _forEach hands errPrefix the property, which has no _id
                pre(g, dp) == coerceErrPrefix(g, typeName, Undefined)
            IN forEach(h, props, f, pre).h
    IN IF ~h.ents[ix].hasAspect
       THEN Throw(h, Error("TypeError", 0,
                <<"Cannot read property 'entityState' of undefined">>))
       ELSE CASE asp.entityState = "Added" -> run1(dps, TRUE)
              [] asp.entityState = "Modified" ->
                    IF asp.forceUpdate THEN run1(dps, FALSE)
                    ELSE IF asp.originalValuesMap = <<>>
                         THEN Throw(h, Error("TypeError", 0,
                                  <<"Cannot read property 'hasOwnProperty' of undefined">>))
                         ELSE run1(SelectSeq(dps, inOvm) \o keyProp, TRUE)
              [] asp.entityState = "Deleted" -> run1(keyProp, TRUE)
              [] OTHER ->
                    raiseError(h, Error("", 400,
                        coerceErrPrefix(h, typeName, h.ents[ix].f["_id"])
                        \o <<". Unknown save operation request, entityState = ",
                             asp.entityState>>))

---------------------------------------------------------------------------
(* __prepareCollectionSaveDocsForType and prepEntity *)

\* createGuid() and new ObjectID(): a value no other key of the request equals
createGuid(h) == Str(<<"newguid", h.genCount + 1>>)
newObjectID(h) == ObjectIDOf(<<"newhex", h.genCount + 1>>)

\* extend({}, e) without entityAspect and _id: e's own properties
extend(fields) == [k \in {n \in DOMAIN fields : fields[n] # Undefined /\ n # "_id"} |-> fields[k]]

Doc(kind, ix, criteria, set, hasConcurrencyCheck) ==
    [kind |-> kind, ix |-> ix, criteria |-> criteria, set |-> set,
     hasConcurrencyCheck |-> hasConcurrencyCheck]

prepErrPrefix(h, typeName, ix) ==
    <<"Save failed preparing save docs for ", h.metadata[typeName].entityTypeName,
      ".id_: ", Show(h.ents[ix].f["_id"])>>

\* prepEntity building the entityKey without the entity's _id
prepEntityKeyWithoutId(h, ix, entityTypeName) ==
    [h EXCEPT !.aspect[ix].entityKey = <<[entityTypeName |-> entityTypeName, id |-> Null]>>]

\* `var entityKey = {...}; entityAspect.entityKey = entityKey`
prepEntityKey(h, ix, entityTypeName) ==
    [h EXCEPT !.aspect[ix].entityKey =
         <<[entityTypeName |-> entityTypeName, id |-> h.ents[ix].f["_id"]]>>]

\* case "Added" of prepEntity generating a key only if the client sent none
prepAddedKeepingClientKey(h, ix, entityTypeName) ==
    LET entityType == h.metadata[entityTypeName]
        generates == /\ entityType.autoGeneratedKeyType \notin {"", "None"}
                     /\ IsNullish(h.ents[ix].f["_id"])
        newId == IF entityType.keyDataType = "Guid" THEN createGuid(h) ELSE newObjectID(h)
    IN IF generates
       THEN [h EXCEPT !.ents[ix].f["_id"] = newId, !.genCount = @ + 1,
                      !.aspect[ix].entityKey[1].id = newId,
                      !.ents[ix].hasAspect = FALSE,
                      !.insertDocs = Append(@, Doc("insert", ix, <<>>, <<>>, FALSE))]
       ELSE [h EXCEPT !.ents[ix].hasAspect = FALSE,
                      !.insertDocs = Append(@, Doc("insert", ix, <<>>, <<>>, FALSE))]

\* case "Added" of prepEntity, after the key has been read
prepAdded(h, ix, entityTypeName) ==
    LET entityType == h.metadata[entityTypeName]
        autoGeneratedKeyType == entityType.autoGeneratedKeyType
        generates == autoGeneratedKeyType # "" /\ autoGeneratedKeyType # "None"
        keyDataType == entityType.keyDataType
        supported == keyDataType \in {"Guid", "MongoObjectId"}
        newId == IF keyDataType = "Guid" THEN createGuid(h) ELSE newObjectID(h)
        h1 == IF generates
              THEN [h EXCEPT !.ents[ix].f["_id"] = newId, !.genCount = @ + 1]
              ELSE h
        clientId == h.aspect[ix].entityKey[1].id
        realId == h1.ents[ix].f["_id"]
        h2 == IF IsNullish(clientId)
              THEN [h1 EXCEPT !.aspect[ix].entityKey[1].id = realId]
              ELSE IF clientId # realId
                   THEN [h1 EXCEPT !.keyMappings = Append(@,
                            [entityTypeName |-> entityTypeName, tempValue |-> clientId,
                             realValue |-> realId])]
                   ELSE h1
    IN IF generates /\ ~supported
       THEN raiseError(h, Error("", 400, prepErrPrefix(h, entityTypeName, ix) \o
                <<". ObjectIds and Guids are the only autoGenerated key types that Breeze currently supports, not ",
                  keyDataType>>))
       ELSE [h2 EXCEPT !.ents[ix].hasAspect = FALSE,
                       !.insertDocs = Append(@, Doc("insert", ix, <<>>, <<>>, FALSE))]

\* case "Modified" of prepEntity without the concurrency criterion
prepModifiedById(h, ix, entityTypeName) ==
    LET asp == h.aspect[ix]
        e == h.ents[ix].f
        setMap == IF asp.forceUpdate THEN extend(e)
                  ELSE [k \in DOMAIN asp.originalValuesMap[1] |-> e[k]]
    IN IF asp.originalValuesMap = <<>> /\ ~asp.forceUpdate
       THEN Throw(h, Error("TypeError", 0, <<"Cannot read property of undefined">>))
       ELSE [h EXCEPT !.updateDocs = Append(@,
                Doc("update", ix, [k \in {"_id"} |-> e["_id"]], setMap, FALSE))]

\* case "Modified" of prepEntity
prepModified(h, ix, entityTypeName) ==
    LET entityType == h.metadata[entityTypeName]
        asp == h.aspect[ix]
        e == h.ents[ix].f
        hasConc == entityType.concurrencyProp # <<>>
        propName == entityType.concurrencyProp[1].name
        ovm == asp.originalValuesMap[1]
        orig == IF propName \in DOMAIN ovm THEN ovm[propName] ELSE Undefined
        criteria == IF hasConc
                    THEN [k \in {"_id", propName} |-> IF k = propName THEN orig ELSE e["_id"]]
                    ELSE [k \in {"_id"} |-> e["_id"]]
        setMap == IF asp.forceUpdate THEN extend(e)
                  ELSE [k \in DOMAIN ovm |-> e[k]]
    IN IF asp.originalValuesMap = <<>> /\ (hasConc \/ ~asp.forceUpdate)
       THEN Throw(h, Error("TypeError", 0, <<"Cannot read property of undefined">>))
       ELSE [h EXCEPT !.updateDocs = Append(@, Doc("update", ix, criteria, setMap, hasConc))]

\* case "Deleted" of prepEntity with the concurrency flag an update gets
prepDeletedWithConcurrencyCheck(h, ix, entityTypeName) ==
    [h EXCEPT !.deleteDocs = Append(@,
         Doc("delete", ix, [k \in {"_id"} |-> h.ents[ix].f["_id"]], <<>>,
             h.metadata[entityTypeName].concurrencyProp # <<>>))]

\* case "Deleted" of prepEntity
prepDeleted(h, ix, entityTypeName) ==
    [h EXCEPT !.deleteDocs = Append(@,
         Doc("delete", ix, [k \in {"_id"} |-> h.ents[ix].f["_id"]], <<>>, FALSE))]

\* `switch(entityAspect.entityState)` of prepEntity
prepSwitch(h, ix, entityTypeName) ==
    LET entityState == h.aspect[ix].entityState IN
    CASE entityState = "Added" -> prepAdded(h, ix, entityTypeName)
      [] entityState = "Modified" -> prepModified(h, ix, entityTypeName)
      [] entityState = "Deleted" -> prepDeleted(h, ix, entityTypeName)
      [] OTHER ->
            raiseError(h, Error("", 400, prepErrPrefix(h, entityTypeName, ix) \o
                <<". Unknown save operation request, entityState = ", entityState>>))

\* prepEntity after `_this._coerceData(e, entityType)` has returned or thrown
prepCoerced(h, ix, entityTypeName) ==
    IF Throws(h) THEN h
    ELSE prepSwitch(prepEntityKey(h, ix, entityTypeName), ix, entityTypeName)

prepEntity(h, ix, entityTypeName) ==
    prepCoerced(coerceData(h, ix, entityTypeName), ix, entityTypeName)

\* the object __prepareCollectionSaveDocsForType returns, pushed by
\* _prepareCollectionSaveDocs
collectionSaveDoc(h, entityTypeName) ==
    LET docs == [entityTypeName |-> entityTypeName,
                 collectionName |-> h.metadata[entityTypeName].collectionName,
                 inserts |-> h.insertDocs,
                 updates |-> h.updateDocs,
                 deletes |-> h.deleteDocs]
    IN IF Throws(h) THEN h
       ELSE [h EXCEPT !.collectionSaveDocs = Append(@, docs),
                      !.insertDocs = <<>>, !.updateDocs = <<>>, !.deleteDocs = <<>>]

prepareCollectionSaveDocsForType(h, entityTypeName) ==
    LET f(g, ix) == prepEntity(g, ix, entityTypeName)
        pre(g, ix) == prepErrPrefix(g, entityTypeName, ix)
    IN collectionSaveDoc(
           forEach([h EXCEPT !.insertDocs = <<>>, !.updateDocs = <<>>, !.deleteDocs = <<>>],
                   MapGet(h.saveMap, entityTypeName), f, pre).h,
           entityTypeName)

\* _prepareCollectionSaveDocs(collectionSaveDocs)
prepareCollectionSaveDocs(h) ==
    IF h.isDone THEN h
    ELSE forEach(h, MapKeys(h.saveMap), prepareCollectionSaveDocsForType, NoPrefix).h

---------------------------------------------------------------------------
(* _fixupFks *)

RECURSIVE Concat(_)
Concat(ss) == IF ss = <<>> THEN <<>> ELSE Head(ss) \o Concat(Tail(ss))

\* the last element of s whose name is key (a later assignment to the same
\* property of a JavaScript object replaces the earlier one)
LastWith(s, key) ==
    s[CHOOSE i \in 1 .. Len(s) : s[i].name = key /\ \A j \in (i + 1) .. Len(s) : s[j].name # key]

\* pendingMap: entityKey._id -> the insert or update document
pendingMap(h) ==
    LET cds == h.collectionSaveDocs
        entry(i, kind, docs, j) ==
            [name |-> PropertyKey(h.aspect[docs[j].ix].entityKey[1].id),
             cd |-> i, kind |-> kind, k |-> j]
        ofCd(i) == [j \in 1 .. Len(cds[i].inserts) |-> entry(i, "inserts", cds[i].inserts, j)]
                   \o [j \in 1 .. Len(cds[i].updates) |-> entry(i, "updates", cds[i].updates, j)]
    IN Concat([i \in 1 .. Len(cds) |-> ofCd(i)])

\* kmMap: tempValue -> keyMapping
kmMap(h) == [i \in 1 .. Len(h.keyMappings) |->
                [name |-> PropertyKey(h.keyMappings[i].tempValue), km |-> h.keyMappings[i]]]

\* the body of pendingFixups.forEach for one pendingFixup
applyFixup(h, pending, pendingFixup, realValue) ==
    IF ~MapHas(pending, PropertyKey(pendingFixup.id))
    THEN Throw(h, Error("TypeError", 0, <<"Cannot read property 'criteria' of undefined">>))
    ELSE LET p == LastWith(pending, PropertyKey(pendingFixup.id))
             fkProp == pendingFixup.fkProp
         IN IF p.kind = "updates"
            THEN [h EXCEPT !.collectionSaveDocs[p.cd].updates[p.k].set =
                     [n \in DOMAIN @ \cup {fkProp} |-> IF n = fkProp THEN realValue ELSE @[n]]]
            ELSE [h EXCEPT !.ents[h.collectionSaveDocs[p.cd].inserts[p.k].ix].f[fkProp] = realValue]

\* the inner function fixup() of _fixupFks
fixup(h) ==
    LET pending == pendingMap(h)
        kms == kmMap(h)
        fixupsOf(i) ==
            LET fkValue == h.possibleFixupMap[i].name IN
            IF MapHas(kms, fkValue)
            THEN [j \in 1 .. Len(h.possibleFixupMap[i].list) |->
                     [pendingFixup |-> h.possibleFixupMap[i].list[j],
                      realValue |-> LastWith(kms, fkValue).km.realValue]]
            ELSE <<>>
        todo == Concat([i \in 1 .. Len(h.possibleFixupMap) |-> fixupsOf(i)])
        step[i \in 0 .. Len(todo)] ==
            IF i = 0 THEN h
            ELSE LET p == step[i - 1] IN
                 IF Throws(p) THEN p
                 ELSE applyFixup(p, pending, todo[i].pendingFixup, todo[i].realValue)
    IN step[Len(todo)]

\* the try / catch around fixup() in _fixupFks
fixupCatch(r) == IF Throws(r) THEN raiseError(Caught(r), r.thrown[1]) ELSE r

fixupFks(h) ==
    IF h.isDone THEN h
    ELSE IF Len(h.keyMappings) = 0 THEN h
    ELSE fixupCatch(fixup(h))

---------------------------------------------------------------------------
(* _invokeCompletedCallback and the afterSaveEntities interceptor *)

\* `done` without the test of sr.errors.length
doneWithoutErrorCheck(h) ==
    callback([h EXCEPT !.isDone = TRUE], <<>>, <<SaveResultOf(h)>>)

\* the `done` function of _invokeCompletedCallback
done(h) ==
    LET sr == SaveResultOf(h) IN
    IF Len(sr.errors) = 0
    THEN callback([h EXCEPT !.isDone = TRUE], <<>>, <<sr>>)
    ELSE raiseError(h, [Error("", 400, <<"Some entities were not saved; see the errors array.">>)
                           EXCEPT !.saveResult = <<sr>>])

\* the developer's afterSaveEntities(done) running the steps of its script:
\* "done" calls done(), "raise" calls this._raiseError(err) with err.saveResult
\* set, "throw" throws, "defer" returns and goes on in a later turn; tried
\* tells whether the call is still inside _invokeCompletedCallback's try block
RECURSIVE afterSaveEntitiesCall(_, _, _)
afterSaveEntitiesCall(h, script, tried) ==
    IF script = <<>> THEN h
    ELSE LET rest == Tail(script)
             hookErr == Error("Error", 0, <<"afterSaveEntities failed">>)
             h0 == [h EXCEPT !.hookLog = Append(@, [hook |-> "afterSaveEntities",
                                                    step |-> Head(script),
                                                    inTry |-> tried])]
         IN CASE Head(script) = "done" ->
                    LET r == done(h0) IN
                    IF Throws(r) THEN r ELSE afterSaveEntitiesCall(r, rest, tried)
              [] Head(script) = "raise" ->
                    LET r == raiseError(h0, [hookErr EXCEPT !.saveResult = <<SaveResultOf(h0)>>]) IN
                    IF Throws(r) THEN r ELSE afterSaveEntitiesCall(r, rest, tried)
              [] Head(script) = "throw" -> Throw(h0, hookErr)
              [] OTHER -> [h0 EXCEPT !.afterPending = Append(@, rest)]

\* the catch clause of _invokeCompletedCallback without
\* `err.saveResult = this.saveResult`
afterSaveEntitiesCatchBare(r) ==
    IF Throws(r)
    THEN raiseError(Caught(r),
             [r.thrown[1] EXCEPT !.message =
                 <<"Save failed in 'afterSaveEntities' with error '">> \o @ \o <<"'">>])
    ELSE r

\* the catch clause of _invokeCompletedCallback
afterSaveEntitiesCatch(r) ==
    IF Throws(r)
    THEN LET err == r.thrown[1] IN
         raiseError(Caught(r),
             [err EXCEPT !.message = <<"Save failed in 'afterSaveEntities' with error '">>
                                         \o @ \o <<"'">>,
                         !.saveResult = <<SaveResultOf(r)>>])
    ELSE r

invokeCompletedCallback(h) ==
    LET h0 == [h EXCEPT !.afterCalls = @ + 1] IN
    IF h.afterSaveEntities.defined
    THEN afterSaveEntitiesCatch(afterSaveEntitiesCall(h0, h.afterSaveEntities.script, TRUE))
    ELSE done(h0)

---------------------------------------------------------------------------
(* The save handlers of the store callbacks *)

\* _checkIfCompleted without `if (this._saveCountPending > 0) return;`
checkIfCompletedAtOnce(h) ==
    IF h.isDone THEN h
    ELSE IF ~h.allSaveCallsSent THEN [h EXCEPT !.saveCountPending = @ - 1]
    ELSE invokeCompletedCallback([h EXCEPT !.saveCountPending = @ - 1])

\* _checkIfCompleted()
checkIfCompleted(h) ==
    IF h.isDone THEN h
    ELSE LET h1 == [h EXCEPT !.saveCountPending = @ - 1] IN
         IF h1.saveCountPending > 0 THEN h1
         ELSE IF ~h1.allSaveCallsSent THEN h1
         ELSE invokeCompletedCallback(h1)

\* _catchSaveError without the `if (doc)` block that copies key and state
catchSaveErrorKeyless(h, err, doc) ==
    checkIfCompleted([h EXCEPT !.saveResult.errors = Append(@,
        [status |-> IF err.statusCode # 0 THEN err.statusCode ELSE 500,
         message |-> err.message, entityKey |-> <<>>, entityState |-> <<>>])])

\* _catchSaveError(err, doc); doc is <<>> when the argument is omitted
catchSaveError(h, err, doc) ==
    LET asp == h.aspect[doc[1].ix]
        entry == [status |-> IF err.statusCode # 0 THEN err.statusCode ELSE 500,
                  message |-> err.message,
                  entityKey |-> IF doc = <<>> THEN <<>> ELSE asp.entityKey,
                  entityState |-> IF doc = <<>> THEN <<>> ELSE <<asp.entityState>>]
    IN checkIfCompleted([h EXCEPT !.saveResult.errors = Append(@, entry)])

\* _handleSave(doc, keyCollection); keyCollection names the handler's array
handleSave(h, doc, keyCollection) ==
    LET entityAspect == h.aspect[doc.ix]
        entityKey == entityAspect.entityKey[1]
        h1 == IF entityAspect.wasCreatedOnServer
              THEN [h EXCEPT !.entitiesCreatedOnServer = Append(@, doc.ix)]
              ELSE h
        h2 == CASE keyCollection = "insertedKeys" -> [h1 EXCEPT !.insertedKeys = Append(@, entityKey)]
                [] keyCollection = "updatedKeys" -> [h1 EXCEPT !.updatedKeys = Append(@, entityKey)]
                [] OTHER -> [h1 EXCEPT !.deletedKeys = Append(@, entityKey)]
    IN checkIfCompleted(h2)

\* the catch clause shared by the three handlers
HandlerCatch(r, doc) ==
    IF Throws(r) THEN catchSaveError(Caught(r), r.thrown[1], <<doc>>) ELSE r

\* _handleInsert without the test of MONGO_ERROR_CODE_DUP_KEY
handleInsertAnyError(h, insertDoc, err, count) ==
    HandlerCatch(
        IF err # <<>> THEN catchSaveError(h, err[1], <<insertDoc>>)
        ELSE IF count # 1
             THEN catchSaveError(h,
                      Error("", 0, <<"Expected exactly 1 inserted doc; db inserted ", ToString(count)>>),
                      <<insertDoc>>)
             ELSE handleSave(h, insertDoc, "insertedKeys"),
        insertDoc)

\* _handleInsert(insertDoc, err, insertedObjects); err is <<>> for null and
\* count is the length of insertedObjects (0 when it is no array)
handleInsert(h, insertDoc, err, count) ==
    HandlerCatch(
        IF err # <<>>
        THEN catchSaveError(h,
                 IF err[1].code = MONGO_ERROR_CODE_DUP_KEY
                 THEN [err[1] EXCEPT !.statusCode = 409, !.message = <<"Duplicate key.">>]
                 ELSE err[1],
                 <<insertDoc>>)
        ELSE IF count # 1
             THEN catchSaveError(h,
                      Error("", 0, <<"Expected exactly 1 inserted doc; db inserted ", ToString(count)>>),
                      <<insertDoc>>)
             ELSE handleSave(h, insertDoc, "insertedKeys"),
        insertDoc)

\* _handleUpdate(updateDoc, err, wasUpdated)
handleUpdate(h, updateDoc, err, wasUpdated) ==
    HandlerCatch(
        IF err # <<>> THEN catchSaveError(h, err[1], <<updateDoc>>)
        ELSE IF ~wasUpdated
             THEN catchSaveError(h,
                      Error("", 404,
                          IF updateDoc.hasConcurrencyCheck
                          THEN <<"Not updated. ", "Perhaps not found due to the concurrency check.">>
                          ELSE <<"Not updated. ">>),
                      <<updateDoc>>)
             ELSE handleSave(h, updateDoc, "updatedKeys"),
        updateDoc)

\* _handleDelete(deleteDoc, err, numberRemoved)
handleDelete(h, deleteDoc, err, numberRemoved) ==
    HandlerCatch(
        IF err # <<>> THEN catchSaveError(h, err[1], <<deleteDoc>>)
        ELSE IF numberRemoved # 1
             THEN catchSaveError(h,
                      Error("", 404,
                          IF deleteDoc.hasConcurrencyCheck
                          THEN <<"Not deleted; may have been deleted previously.",
                                 " Perhaps not found due to the concurrency check.">>
                          ELSE <<"Not deleted; may have been deleted previously.">>),
                      <<deleteDoc>>)
             ELSE handleSave(h, deleteDoc, "deletedKeys"),
        deleteDoc)

---------------------------------------------------------------------------
(* _saveCollections, _saveCollection, saveCore and save *)

\* a call on the store: db.collection (op "collection", carrying the closure's
\* cd) or collection.insert / update / remove (carrying the document and, for
\* an insert, the entity as it is when the call is made)
Call(op, r, cdi, k, cd, doc, entity) ==
    [op |-> op, run |-> r, cdi |-> cdi, k |-> k, cd |-> cd, doc |-> doc, entity |-> entity]

Issue(h, cs) == [h EXCEPT !.calls = @ \cup cs, !.issued = @ \cup cs]

\* _saveCollection(cd) without the update of _saveCountPending
saveCollectionUncounted(h, cdi) ==
    Issue(h, {Call("collection", h.run, cdi, 0, <<h.collectionSaveDocs[cdi]>>, <<>>, <<>>)})

\* _saveCollection(cd) counting the inserts of the group only
saveCollectionCountingInserts(h, cdi) ==
    Issue([h EXCEPT !.saveCountPending = @ + Len(h.collectionSaveDocs[cdi].inserts)],
          {Call("collection", h.run, cdi, 0, <<h.collectionSaveDocs[cdi]>>, <<>>, <<>>)})

\* _saveCollection(cd), up to the return of db.collection(...)
saveCollection(h, cdi) ==
    LET cd == h.collectionSaveDocs[cdi]
        h1 == [h EXCEPT !.saveCountPending =
                   @ + Len(cd.inserts) + Len(cd.updates) + Len(cd.deletes)]
    IN Issue(h1, {Call("collection", h.run, cdi, 0, <<cd>>, <<>>, <<>>)})

\* the body of the db.collection callback when the collection was found
issueSaves(h, c) ==
    LET cd == c.cd[1]
        ins == {Call("insert", c.run, c.cdi, k, <<>>, <<cd.inserts[k]>>,
                     <<h.ents[cd.inserts[k].ix].f>>) : k \in 1 .. Len(cd.inserts)}
        upd == {Call("update", c.run, c.cdi, k, <<>>, <<cd.updates[k]>>, <<>>) :
                     k \in 1 .. Len(cd.updates)}
        del == {Call("remove", c.run, c.cdi, k, <<>>, <<cd.deletes[k]>>, <<>>) :
                     k \in 1 .. Len(cd.deletes)}
    IN Issue(h, ins \cup upd \cup del)

\* the body of the db.collection callback when err is set
collectionNotFound(h, c, err) ==
    catchSaveError(h,
        Error("", 400, <<"Save failed to find the db collection for '",
                         h.metadata[c.cd[1].entityTypeName].entityTypeName,
                         "' because ">> \o err.message),
        <<>>)

\* _saveCollections without `if (this._isDone) {return true; }`
saveCollectionsUnguarded(h) ==
    IF Len(h.collectionSaveDocs) = 0
    THEN invokeCompletedCallback([h EXCEPT !.saveResult = [created |-> TRUE, errors |-> <<>>]])
    ELSE [h EXCEPT !.saveResult = [created |-> TRUE, errors |-> <<>>],
                   !.pc = "dispatching", !.nextCd = 1]

\* _saveCollections(collectionSaveDocs) up to the forEach; the loop itself is
\* SaveCollectionStep and SaveCollectionsEnd
saveCollections(h) ==
    IF h.isDone THEN h
    ELSE LET h1 == [h EXCEPT !.saveResult = [created |-> TRUE, errors |-> <<>>]] IN
         IF Len(h.collectionSaveDocs) = 0
         THEN invokeCompletedCallback(h1)
         ELSE [h1 EXCEPT !.pc = "dispatching", !.nextCd = 1]

\* saveCore after this._fixupFks(collectionSaveDocs)
saveCoreFixedUp(h) == IF Throws(h) THEN h ELSE saveCollections(h)

\* saveCore going from _prepareCollectionSaveDocs to _saveCollections without
\* `this._fixupFks(collectionSaveDocs)`
saveCoreWithoutFixup(h) == IF Throws(h) THEN h ELSE saveCoreFixedUp(h)

\* saveCore after this._prepareCollectionSaveDocs(collectionSaveDocs)
saveCorePrepared(h) == IF Throws(h) THEN h ELSE saveCoreFixedUp(fixupFks(h))

\* saveCore after this._reviewMetadata()
saveCoreReviewed(h) ==
    IF Throws(h) \/ h.isDone THEN h
    ELSE saveCorePrepared(prepareCollectionSaveDocs([h EXCEPT !.collectionSaveDocs = <<>>]))

saveCore(h) == saveCoreReviewed(reviewMetadata([h EXCEPT !.run = @ + 1]).h)

\* the developer's beforeSaveEntities(continueSave) running the steps of its
\* script from h.beforeRest on: "continue" calls continueSave(), "raise" calls
\* this._raiseError(err), "throw" throws, "defer" returns and goes on in a
\* later turn.  While saveCore is inside its dispatch loop the interceptor
\* waits for it to return.  An exception leaving the interceptor is caught by
\* save() only while the interceptor is still inside its try block.
RECURSIVE beforeSaveEntitiesCall(_)

\* save() without its catch clause: the exception is lost
beforeSaveEntitiesThrewUnreported(r) ==
    [Caught(r) EXCEPT !.beforeRest = <<>>, !.inTry = FALSE]

\* an exception leaves beforeSaveEntities: the catch clause of save() when the
\* interceptor is still inside the try block, an uncaught exception otherwise
beforeSaveEntitiesThrew(r) ==
    LET r0 == [Caught(r) EXCEPT !.beforeRest = <<>>, !.inTry = FALSE]
        err == r.thrown[1]
    IN IF r.inTry
       THEN Caught(raiseError(r0,
                [err EXCEPT !.message = <<"save failed in 'beforeSaveEntities' with error '">>
                                            \o @ \o <<"'">>]))
       ELSE r0

\* the interceptor after one of its calls has returned or thrown
beforeSaveEntitiesNext(r) ==
    IF Throws(r) THEN beforeSaveEntitiesThrew(r) ELSE beforeSaveEntitiesCall(r)

beforeSaveEntitiesCall(h) ==
    LET hookErr == Error("Error", 0, <<"beforeSaveEntities failed">>)
        h0 == [h EXCEPT !.beforeRest = Tail(@),
                        !.hookLog = Append(@, [hook |-> "beforeSaveEntities",
                                               step |-> Head(h.beforeRest),
                                               inTry |-> h.inTry])]
    IN IF h.pc = "dispatching" THEN h
       ELSE IF h.beforeRest = <<>> THEN [h EXCEPT !.inTry = FALSE]
       ELSE CASE Head(h.beforeRest) = "continue" -> beforeSaveEntitiesNext(saveCore(h0))
              [] Head(h.beforeRest) = "raise" -> beforeSaveEntitiesNext(raiseError(h0, hookErr))
              [] Head(h.beforeRest) = "throw" -> beforeSaveEntitiesThrew(Throw(h0, hookErr))
              [] OTHER -> [h0 EXCEPT !.inTry = FALSE]

\* save() without `if (this._buildSaveMap()) return;`
saveBuiltRegardless(b) ==
    IF b.h.beforeSaveEntities.defined
    THEN beforeSaveEntitiesCall([b.h EXCEPT !.pc = "idle",
                                            !.beforeRest = b.h.beforeSaveEntities.script,
                                            !.inTry = TRUE])
    ELSE Caught(saveCore([b.h EXCEPT !.pc = "idle"]))

\* save() after `if (this._buildSaveMap()) return;`, b being _buildSaveMap's result
saveBuilt(b) ==
    IF b.stop THEN Caught([b.h EXCEPT !.pc = "idle"])
    ELSE IF b.h.beforeSaveEntities.defined
         THEN beforeSaveEntitiesCall([b.h EXCEPT !.pc = "idle",
                                                 !.beforeRest = b.h.beforeSaveEntities.script,
                                                 !.inTry = TRUE])
         ELSE Caught(saveCore([b.h EXCEPT !.pc = "idle"]))

save(h) == saveBuilt(buildSaveMap(h))

---------------------------------------------------------------------------
(* The handler as a record, and the state after a call *)

this ==
    [pc |-> pc, entities |-> entities, ents |-> ents, aspect |-> aspect,
     metadata |-> metadata, saveMap |-> saveMap, saveResult |-> saveResult,
     insertedKeys |-> insertedKeys, updatedKeys |-> updatedKeys,
     deletedKeys |-> deletedKeys, keyMappings |-> keyMappings,
     entitiesCreatedOnServer |-> entitiesCreatedOnServer, isDone |-> isDone,
     allSaveCallsSent |-> allSaveCallsSent, saveCountPending |-> saveCountPending,
     possibleFixupMap |-> possibleFixupMap, collectionSaveDocs |-> collectionSaveDocs,
     nextCd |-> nextCd, run |-> run, genCount |-> genCount, calls |-> calls,
     issued |-> issued, callbackLog |-> callbackLog,
     beforeSaveEntity |-> beforeSaveEntity, beforeSaveEntities |-> beforeSaveEntities,
     afterSaveEntities |-> afterSaveEntities, beforeRest |-> beforeRest, inTry |-> inTry,
     afterPending |-> afterPending, afterCalls |-> afterCalls,
     callbackThrows |-> callbackThrows, reported |-> reported, hookLog |-> hookLog,
     thrown |-> NoThrow, insertDocs |-> <<>>, updateDocs |-> <<>>, deleteDocs |-> <<>>]

Commit(h) ==
    /\ pc' = h.pc
    /\ entities' = h.entities
    /\ ents' = h.ents
    /\ aspect' = h.aspect
    /\ metadata' = h.metadata
    /\ saveMap' = h.saveMap
    /\ saveResult' = h.saveResult
    /\ insertedKeys' = h.insertedKeys
    /\ updatedKeys' = h.updatedKeys
    /\ deletedKeys' = h.deletedKeys
    /\ keyMappings' = h.keyMappings
    /\ entitiesCreatedOnServer' = h.entitiesCreatedOnServer
    /\ isDone' = h.isDone
    /\ allSaveCallsSent' = h.allSaveCallsSent
    /\ saveCountPending' = h.saveCountPending
    /\ possibleFixupMap' = h.possibleFixupMap
    /\ collectionSaveDocs' = h.collectionSaveDocs
    /\ nextCd' = h.nextCd
    /\ run' = h.run
    /\ genCount' = h.genCount
    /\ calls' = h.calls
    /\ issued' = h.issued
    /\ callbackLog' = h.callbackLog
    /\ beforeRest' = h.beforeRest
    /\ inTry' = h.inTry
    /\ afterPending' = h.afterPending
    /\ afterCalls' = h.afterCalls
    /\ reported' = h.reported
    /\ hookLog' = h.hookLog
    /\ UNCHANGED <<beforeSaveEntity, beforeSaveEntities, afterSaveEntities, callbackThrows,
                   reqBody>>

\* the store reports outcome for call c
Report(h, c, outcome) ==
    [h EXCEPT !.calls = @ \ {c},
              !.reported = Append(@, [op |-> c.op, run |-> c.run, cdi |-> c.cdi, k |-> c.k,
                                      ix |-> IF c.doc = <<>> THEN 0 ELSE c.doc[1].ix,
                                      outcome |-> outcome,
                                      sent |-> h.allSaveCallsSent])]

\* an error the driver reports
DriverError(code, message) == [Error("MongoError", 0, message) EXCEPT !.code = code]

---------------------------------------------------------------------------
(* Actions *)

\* the developer registers a server-created entity before calling save()
AddToSaveMap ==
    /\ pc = "new"
    /\ Len(ents) < Len(entities) + MaxServerEntities
    /\ \E typeName \in DOMAIN metadata :
           Commit(addToSaveMap(this,
                      [n \in {"_id", "ownerId", "rowVersion"} |-> Null], typeName, <<>>))

\* save(), to its return or to the first _saveCollection of the dispatch loop
Save ==
    /\ pc = "new"
    /\ Commit(save(this))

\* a beforeSaveEntities that returned without finishing goes on
BeforeSaveEntitiesResume ==
    /\ pc = "idle"
    /\ beforeRest # <<>>
    /\ Commit(beforeSaveEntitiesCall(this))

\* one turn of collectionSaveDocs.forEach(this._saveCollection)
SaveCollectionStep ==
    /\ pc = "dispatching"
    /\ nextCd <= Len(collectionSaveDocs)
    /\ Commit([saveCollection(this, nextCd) EXCEPT !.nextCd = @ + 1])

\* the forEach is over: `this._allSaveCallsSent = true`, and saveCore returns
\* to save() or to the interceptor that called it
SaveCollectionsEnd ==
    /\ pc = "dispatching"
    /\ nextCd > Len(collectionSaveDocs)
    /\ Commit(beforeSaveEntitiesCall([this EXCEPT !.allSaveCallsSent = TRUE, !.pc = "idle"]))

\* the store reports on db.collection
CollectionCallback ==
    /\ pc # "new"
    /\ \E c \in calls :
        /\ c.op = "collection"
        /\ \/ Commit(issueSaves(Report(this, c, "ok"), c))
           \/ Commit(Caught(collectionNotFound(Report(this, c, "error"), c,
                         DriverError(0, <<"Collection does not exist">>))))

\* the store reports on collection.insert
InsertCallback ==
    /\ pc # "new"
    /\ \E c \in calls :
        /\ c.op = "insert"
        /\ \/ Commit(Caught(handleInsert(Report(this, c, "ok"), c.doc[1], <<>>, 1)))
           \/ Commit(Caught(handleInsert(Report(this, c, "none"), c.doc[1], <<>>, 0)))
           \/ Commit(Caught(handleInsert(Report(this, c, "duplicate"), c.doc[1],
                         <<DriverError(MONGO_ERROR_CODE_DUP_KEY, <<"E11000 duplicate key error">>)>>, 0)))
           \/ Commit(Caught(handleInsert(Report(this, c, "error"), c.doc[1],
                         <<DriverError(0, <<"connection closed">>)>>, 0)))

\* the store reports on collection.update
UpdateCallback ==
    /\ pc # "new"
    /\ \E c \in calls :
        /\ c.op = "update"
        /\ \/ Commit(Caught(handleUpdate(Report(this, c, "ok"), c.doc[1], <<>>, TRUE)))
           \/ Commit(Caught(handleUpdate(Report(this, c, "none"), c.doc[1], <<>>, FALSE)))
           \/ Commit(Caught(handleUpdate(Report(this, c, "error"), c.doc[1],
                         <<DriverError(0, <<"connection closed">>)>>, FALSE)))

\* the store reports on collection.remove
DeleteCallback ==
    /\ pc # "new"
    /\ \E c \in calls :
        /\ c.op = "remove"
        /\ \/ Commit(Caught(handleDelete(Report(this, c, "ok"), c.doc[1], <<>>, 1)))
           \/ Commit(Caught(handleDelete(Report(this, c, "none"), c.doc[1], <<>>, 0)))
           \/ Commit(Caught(handleDelete(Report(this, c, "error"), c.doc[1],
                         <<DriverError(0, <<"connection closed">>)>>, 0)))

\* an afterSaveEntities that returned without finishing goes on
AfterSaveEntitiesResume ==
    /\ pc = "idle"
    /\ \E i \in 1 .. Len(afterPending) :
           Commit(Caught(afterSaveEntitiesCall(
               [this EXCEPT !.afterPending = SubSeq(@, 1, i - 1) \o SubSeq(@, i + 1, Len(@))],
               afterPending[i], FALSE)))

---------------------------------------------------------------------------
(* The requests and interceptors the handler is constructed with *)

TypeNames == {"Customer", "Order"}
EntityStates == {"Added", "Modified", "Deleted"}

DataProperty(name, dataType, isFk, isConcurrencyProp) ==
    [name |-> name, dataType |-> dataType, isFk |-> isFk, isConcurrencyProp |-> isConcurrencyProp]

\* the entity types of reqBody.metadata, by kind:
\*   "guid"    Guid key, generated by the server
\*   "oid"     MongoObjectId key, generated by the server
\*   "plain"   String key, autoGeneratedKeyType None, rowVersion is the concurrency property
\*   "int"     Int32 key with a generated-key setting
\*   "fkkey"   the _id property is marked as a foreign key
\*   "missing" the type has no metadata
KeyDataType(kind) ==
    CASE kind \in {"guid", "fkkey"} -> "Guid"
      [] kind = "oid" -> "MongoObjectId"
      [] kind = "int" -> "Int32"
      [] OTHER -> "String"

EntityType(name, kind) ==
    [defined |-> kind # "missing",
     entityTypeName |-> name,
     collectionName |-> "",
     defaultResourceName |-> name,
     autoGeneratedKeyType |-> IF kind = "plain" THEN "None" ELSE "Identity",
     dataProperties |-> <<DataProperty("_id", KeyDataType(kind), kind = "fkkey", FALSE),
                          DataProperty("ownerId", KeyDataType(kind), TRUE, FALSE),
                          DataProperty("rowVersion", "Int32", FALSE, kind = "plain")>>,
     key |-> <<>>,
     keyDataType |-> "",
     concurrencyProp |-> <<>>]

Metadata(customerKind, orderKind) ==
    [n \in TypeNames |-> EntityType(n, IF n = "Customer" THEN customerKind ELSE orderKind)]

Number(n) == [t |-> "number", s |-> <<"number", n>>]

\* a client key: a string of 24 hex characters
Key(n) == Str(<<"hex", n>>)

\* a string that is no ObjectId
NoObjectId == Str(<<"guid", 1>>)

\* an entity of reqBody.entities: d = [typeName, state, id, ownerId, changed, forceUpdate]
EntityOf(d) ==
    [f |-> [n \in {"_id", "ownerId", "rowVersion"} |->
                CASE n = "_id" -> d.id
                  [] n = "ownerId" -> d.ownerId
                  [] OTHER -> Number(2)],
     hasAspect |-> TRUE]

AspectOf(d) ==
    [entityTypeName |-> d.typeName,
     entityState |-> d.state,
     wasCreatedOnServer |-> FALSE,
     originalValuesMap |-> <<[n \in d.changed |-> IF n = "rowVersion" THEN Number(1) ELSE Key(0)]>>,
     forceUpdate |-> d.forceUpdate,
     entityKey |-> <<>>]

\* all sequences over S of length 0 .. n
SeqUpTo(S, n) == UNION {[1 .. k -> S] : k \in 0 .. n}

\* the state after `new MongoSaveHandler(db, reqBody, callback)` and the
\* developer's assignment of the interceptors
Constructed(batch, md, env) ==
    /\ pc = "new"
    /\ entities = [i \in 1 .. Len(batch) |-> i]
    /\ ents = [i \in 1 .. Len(batch) |-> EntityOf(batch[i])]
    /\ aspect = [i \in 1 .. Len(batch) |-> AspectOf(batch[i])]
    /\ metadata = md
    /\ saveMap = <<>>
    /\ saveResult = [created |-> FALSE, errors |-> <<>>]
    /\ insertedKeys = <<>>
    /\ updatedKeys = <<>>
    /\ deletedKeys = <<>>
    /\ keyMappings = <<>>
    /\ entitiesCreatedOnServer = <<>>
    /\ isDone = FALSE
    /\ allSaveCallsSent = FALSE
    /\ saveCountPending = 0
    /\ possibleFixupMap = <<>>
    /\ collectionSaveDocs = <<>>
    /\ nextCd = 1
    /\ run = 0
    /\ genCount = 0
    /\ calls = {}
    /\ issued = {}
    /\ callbackLog = <<>>
    /\ beforeSaveEntity = env.beforeSaveEntity
    /\ beforeSaveEntities = env.beforeSaveEntities
    /\ afterSaveEntities = env.afterSaveEntities
    /\ beforeRest = <<>>
    /\ inTry = FALSE
    /\ afterPending = <<>>
    /\ afterCalls = 0
    /\ callbackThrows = env.callbackThrows
    /\ reported = <<>>
    /\ hookLog = <<>>
    /\ reqBody = batch

NoInterceptor == [defined |-> FALSE, script |-> <<>>]
Interceptor(script) == [defined |-> TRUE, script |-> script]
NoBeforeSaveEntity == [defined |-> FALSE, verdict |-> [i \in 1 .. MaxEntities |-> "keep"]]
BeforeSaveEntityOf(verdict) == [defined |-> TRUE, verdict |-> verdict]

Env(bse, bses, ases, throws) ==
    [beforeSaveEntity |-> bse, beforeSaveEntities |-> bses, afterSaveEntities |-> ases,
     callbackThrows |-> throws]

\* no interceptor installed, a callback that returns
PlainEnv == Env(NoBeforeSaveEntity, NoInterceptor, NoInterceptor, FALSE)

\* behaviours of a beforeSaveEntities interceptor
BeforeScripts ==
    {<<"continue">>, <<"continue", "continue">>, <<"throw">>, <<"continue", "throw">>,
     <<"raise">>, <<"raise", "throw">>, <<"raise", "continue">>, <<>>,
     <<"defer", "continue">>, <<"defer", "throw">>}

\* behaviours of an afterSaveEntities interceptor
AfterScripts ==
    {<<"done">>, <<"done", "done">>, <<"throw">>, <<"done", "throw">>, <<"raise">>,
     <<"raise", "done">>, <<>>, <<"defer", "done">>}

\* behaviours of a beforeSaveEntity predicate
Verdicts ==
    {[i \in 1 .. MaxEntities |-> "keep"],
     [i \in 1 .. MaxEntities |-> "skip"],
     [i \in 1 .. MaxEntities |-> IF i = 1 THEN "skip" ELSE "keep"],
     [i \in 1 .. MaxEntities |-> IF i = 1 THEN "throw" ELSE "keep"],
     [i \in 1 .. MaxEntities |-> IF i = 1 THEN "keep" ELSE "throw"]}

\* surroundings without a whole-batch interceptor, or with interceptors that
\* follow a beforeSaveEntity predicate throwing on the second entity
EnvsOfStore ==
    {PlainEnv, Env(NoBeforeSaveEntity, NoInterceptor, NoInterceptor, TRUE)}
    \cup {Env(BeforeSaveEntityOf(v), NoInterceptor, NoInterceptor, FALSE) : v \in Verdicts}
    \cup {Env(BeforeSaveEntityOf([i \in 1 .. MaxEntities |-> IF i = 1 THEN "keep" ELSE "throw"]),
              Interceptor(<<"continue">>), Interceptor(<<"done">>), FALSE)}

\* surroundings with a whole-batch interceptor
EnvsOfInterceptors ==
    {Env(NoBeforeSaveEntity, Interceptor(s), NoInterceptor, FALSE) : s \in BeforeScripts}
    \cup {Env(NoBeforeSaveEntity, NoInterceptor, Interceptor(s), FALSE) : s \in AfterScripts}
    \cup {Env(NoBeforeSaveEntity, Interceptor(<<"continue", "continue">>),
              Interceptor(<<"defer", "done">>), FALSE),
          Env(NoBeforeSaveEntity, Interceptor(<<"continue">>), Interceptor(<<"done">>), TRUE),
          Env(NoBeforeSaveEntity, Interceptor(<<"continue", "throw">>), NoInterceptor, TRUE)}

\* requests whose entities carry distinct keys and no foreign key
SimpleEntity(typeName, state, i) ==
    [typeName |-> typeName, state |-> state, id |-> Key(i), ownerId |-> Null,
     changed |-> {"rowVersion"}, forceUpdate |-> FALSE]

SimpleBatches(states, n) ==
    {[i \in DOMAIN b |-> SimpleEntity(b[i][1], b[i][2], i)] :
         b \in SeqUpTo(TypeNames \X states, n)}

\* requests that reach the store
InitDispatch ==
    \E batch \in SimpleBatches(EntityStates, MaxEntities), env \in EnvsOfStore :
        Constructed(batch, Metadata("plain", "guid"), env)

\* requests saved under a beforeSaveEntities or afterSaveEntities interceptor
InitIntercepted ==
    \E batch \in SimpleBatches(EntityStates, MaxInterceptedEntities), env \in EnvsOfInterceptors :
        Constructed(batch, Metadata("plain", "guid"), env)

\* requests whose metadata or entity state is not usable
InitRejected ==
    \E batch \in SimpleBatches(EntityStates \cup {"Detached"}, MaxEntities),
       kind \in {"oid", "int", "fkkey", "missing"},
       owner \in {Null, NoObjectId} :
        Constructed([i \in DOMAIN batch |-> [batch[i] EXCEPT !.ownerId = owner]],
                    Metadata("plain", kind), PlainEnv)

Init == InitDispatch \/ InitIntercepted \/ InitRejected

\* requests whose entities refer to one another: keys may be absent or shared,
\* foreign keys may name a key of the request or hold a string that is no
\* ObjectId, updates come with either changed property or forced
Keys == {Key(k) : k \in 1 .. MaxKeys}

LinkedEntities ==
    {[typeName |-> t, state |-> "Added", id |-> i, ownerId |-> o,
      changed |-> {}, forceUpdate |-> FALSE] :
         t \in TypeNames, i \in Keys \cup {Null}, o \in Keys \cup {Null, NoObjectId}}
    \cup {[typeName |-> t, state |-> "Modified", id |-> i, ownerId |-> o,
           changed |-> c[1], forceUpdate |-> c[2]] :
         t \in TypeNames, i \in Keys, o \in Keys \cup {Null, NoObjectId},
         c \in {<<{"ownerId"}, FALSE>>, <<{"rowVersion"}, FALSE>>, <<{"rowVersion"}, TRUE>>}}
    \cup {[typeName |-> t, state |-> "Deleted", id |-> i, ownerId |-> Null,
           changed |-> {}, forceUpdate |-> FALSE] :
         t \in TypeNames, i \in Keys}

InitPrep ==
    \E batch \in SeqUpTo(LinkedEntities, MaxEntities),
       customerKind \in {"guid", "oid"}, orderKind \in {"guid", "plain"} :
        Constructed(batch, Metadata(customerKind, orderKind), PlainEnv)

Next ==
    \/ AddToSaveMap
    \/ Save
    \/ BeforeSaveEntitiesResume
    \/ SaveCollectionStep
    \/ SaveCollectionsEnd
    \/ CollectionCallback
    \/ InsertCallback
    \/ UpdateCallback
    \/ DeleteCallback
    \/ AfterSaveEntitiesResume

Spec == Init /\ [][Next]_vars

\* preparation and dispatch alone, up to the calls handed to the store
NextPrep ==
    \/ Save
    \/ SaveCollectionStep
    \/ SaveCollectionsEnd
    \/ CollectionCallback

SpecPrep == InitPrep /\ [][NextPrep]_vars

---------------------------------------------------------------------------
(* Properties *)

Last(s) == s[Len(s)]

\* C1: in one save(), the terminal callback is invoked at most once, whatever
\* the store reports, in whatever order, and whatever the whole-batch
\* interceptors do.
C1_CallbackAtMostOnce == Len(callbackLog) <= 1

\* the interceptors invoke their continuations, once
HooksCooperate ==
    /\ beforeSaveEntities.defined =>
           beforeSaveEntities.script \in {<<"continue">>, <<"defer", "continue">>}
    /\ afterSaveEntities.defined =>
           afterSaveEntities.script \in {<<"done">>, <<"defer", "done">>}

\* save() has returned, every store call has reported, no interceptor has
\* anything left to do: nothing can happen any more
Quiescent ==
    /\ pc = "idle"
    /\ calls = {}
    /\ beforeRest = <<>>
    /\ afterPending = <<>>

\* the store has reported nothing before the dispatch loop was over
ReportedAfterDispatch == \A i \in 1 .. Len(reported) : reported[i].sent

\* C2: when every store call reports once and the interceptors continue, every
\* save() gets to invoke the terminal callback: once nothing is left to
\* happen, the callback has been invoked.  Stated here for the stores that
\* report only after the dispatch loop is over, a part of what the claim covers.
C2_CallbackEventually ==
    (HooksCooperate /\ Quiescent /\ ReportedAfterDispatch) => Len(callbackLog) >= 1

\* the entities registered with addToSaveMap()
Registered == (Len(reqBody) + 1) .. Len(ents)

\* C4: an entity registered with addToSaveMap() before save() is saved with
\* the batch: when the handler delivers success, the entity is in
\* saveResult.entitiesCreatedOnServer.
C4_RegisteredEntitySaved ==
    \A i \in 1 .. Len(callbackLog) :
        callbackLog[i].error = <<>> =>
            \A ix \in Registered :
                \E j \in 1 .. Len(callbackLog[i].saveResult[1].entitiesCreatedOnServer) :
                    callbackLog[i].saveResult[1].entitiesCreatedOnServer[j] = ix

\* entity a of the request is Added under a client key that the server has
\* replaced, and no other entity of the request had its key replaced from the
\* same client key
Rekeyed(a) ==
    /\ reqBody[a].state = "Added"
    /\ ~IsNullish(reqBody[a].id)
    /\ PropertyKey(ents[a].f["_id"]) # PropertyKey(reqBody[a].id)
    /\ \A a2 \in 1 .. Len(reqBody) :
           (a2 # a /\ reqBody[a2].state = "Added" /\ reqBody[a2].id = reqBody[a].id) =>
               PropertyKey(ents[a2].f["_id"]) = PropertyKey(reqBody[a2].id)

\* no two entities of the request have the same type and the same key
DistinctKeys ==
    \A i, j \in 1 .. Len(reqBody) :
        (i # j /\ reqBody[i].typeName = reqBody[j].typeName) => reqBody[i].id # reqBody[j].id

\* C3: for every Added entity A whose client key K1 was replaced by a real key
\* R1, and every Added or Modified entity B of the request, of any type and at
\* any position, whose foreign key was K1, the insert payload or $set issued
\* for B has the foreign key equal to R1.
C3_ForeignKeyFixup ==
    \A c \in issued : \A a \in 1 .. Len(reqBody) :
        (/\ c.op \in {"insert", "update"}
         /\ DistinctKeys
         /\ Rekeyed(a)
         /\ reqBody[c.doc[1].ix].ownerId = reqBody[a].id
         /\ c.op = "update" =>
                (reqBody[c.doc[1].ix].forceUpdate \/ "ownerId" \in reqBody[c.doc[1].ix].changed)) =>
            LET payload == IF c.op = "insert" THEN c.entity[1] ELSE c.doc[1].set
            IN /\ "ownerId" \in DOMAIN payload
               /\ payload.ownerId = ents[a].f["_id"]

\* the beforeSaveEntities interceptor throws inside save()'s try block
BeforeThrow == [hook |-> "beforeSaveEntities", step |-> "throw", inTry |-> TRUE]

\* the error save() hands to _raiseError when beforeSaveEntities has thrown
BeforeHookError ==
    Error("Error", 0, <<"save failed in 'beforeSaveEntities' with error '",
                        "beforeSaveEntities failed", "'">>)

SaveResultEmpty ==
    /\ insertedKeys = <<>>
    /\ updatedKeys = <<>>
    /\ deletedKeys = <<>>
    /\ keyMappings = <<>>
    /\ entitiesCreatedOnServer = <<>>
    /\ saveResult.errors = <<>>

\* C5 as amended: if beforeSaveEntities throws, inside its call by save(),
\* before it has invoked the continuation or _raiseError, then no store call is
\* ever issued, the terminal callback is invoked once, with the interceptor's
\* error, and the SaveResult stays empty.
C5_ThrowBeforeContinuation ==
    (hookLog # <<>> /\ hookLog[1] = BeforeThrow) =>
        /\ issued = {}
        /\ Len(callbackLog) = 1
        /\ callbackLog[1].error = <<BeforeHookError>>
        /\ callbackLog[1].saveResult = <<>>
        /\ SaveResultEmpty

\* C5, witness: the interceptor of a request with an entity has thrown first
C5_Witness ==
    /\ hookLog # <<>>
    /\ hookLog[1] = BeforeThrow
    /\ Len(reqBody) = 1
    /\ Len(callbackLog) = 1

\* C5 as stated: if beforeSaveEntities throws at any point, whether or not it
\* has invoked the continuation, no store call is ever issued, the terminal
\* callback receives the interceptor's error and the SaveResult stays empty.
C5_ThrowAtAnyPoint ==
    (\E i \in 1 .. Len(hookLog) :
        /\ reqBody # <<>>
        /\ hookLog[i] = BeforeThrow
        /\ \A j \in 1 .. (i - 1) : hookLog[j].step = "continue") =>
        /\ issued = {}
        /\ Len(callbackLog) >= 1
        /\ callbackLog[1].error = <<BeforeHookError>>
        /\ SaveResultEmpty

\* the terminal callback was handed the error of a failed metadata review or
\* preparation, raised in the first run of saveCore
PreparationFailure(e) ==
    /\ e.error # <<>>
    /\ e.run = 1
    /\ Head(e.error[1].message) \in
           {"Unable to locate metadata for an EntityType named: ", "The '",
            "Save failed checking data for ", "Save failed preparing save docs for "}

\* C6: if an entity fails metadata review or preparation, no store call is
\* issued for any entity of the batch and the terminal callback is invoked
\* once, with an error.
C6_FailFastPreparation ==
    \A i \in 1 .. Len(callbackLog) :
        PreparationFailure(callbackLog[i]) => (issued = {} /\ Len(callbackLog) = 1)

\* C6, witness: a request whose first entity is sound and whose second fails
C6_Witness ==
    /\ Len(reqBody) = 2
    /\ reqBody[1].typeName = "Customer"
    /\ reqBody[1].state = "Added"
    /\ reqBody[2].typeName = "Order"
    /\ Len(callbackLog) = 1
    /\ PreparationFailure(callbackLog[1])

\* the store reports outcome on a call of kind op in this step
StoreReported(op, outcome) ==
    /\ Len(reported') = Len(reported) + 1
    /\ Last(reported').op = op
    /\ Last(reported').outcome = outcome

\* the errors entry _catchSaveError builds for the document of entity ix
ErrorEntry(ix, status, message) ==
    [status |-> status, message |-> message, entityKey |-> aspect[ix].entityKey,
     entityState |-> <<aspect[ix].entityState>>]

\* saveResult.errors gains entry in this step, and nothing else but the entry
\* a handler's catch clause adds when the terminal callback throws
GainsError(entry) ==
    LET old == saveResult.errors
        new == saveResult'.errors
    IN /\ Len(new) > Len(old)
       /\ SubSeq(new, 1, Len(old)) = old
       /\ new[Len(old) + 1] = entry
       /\ \A j \in (Len(old) + 2) .. Len(new) : callbackThrows /\ new[j].status = 500

\* C7: an insert the store reports as a duplicate key (code 11000) adds exactly
\* one errors entry, of status 409, with the entity's key and state Added; every
\* operation the store reports as successful gets its key into the success
\* list of its kind.
C7_DuplicateKeyConflict ==
    [][/\ StoreReported("insert", "duplicate") =>
            /\ aspect[Last(reported').ix].entityState = "Added"
            /\ GainsError(ErrorEntry(Last(reported').ix, 409, <<"Duplicate key.">>))
       /\ StoreReported("insert", "ok") =>
            insertedKeys' = Append(insertedKeys, aspect[Last(reported').ix].entityKey[1])
       /\ StoreReported("update", "ok") =>
            updatedKeys' = Append(updatedKeys, aspect[Last(reported').ix].entityKey[1])
       /\ StoreReported("remove", "ok") =>
            deletedKeys' = Append(deletedKeys, aspect[Last(reported').ix].entityKey[1])]_vars

\* C7, witness: both inserts of a request were duplicates and the save is over
C7_Witness ==
    /\ Len(reported) = 3
    /\ reported[2].outcome = "duplicate"
    /\ reported[3].outcome = "duplicate"
    /\ Len(saveResult.errors) = 2
    /\ saveResult.errors[1].status = 409
    /\ saveResult.errors[2].status = 409
    /\ Len(callbackLog) = 1

\* the names of the concurrency properties the metadata declare for a type
ConcurrencyFields(typeName) ==
    {metadata[typeName].dataProperties[i].name :
        i \in {j \in DOMAIN metadata[typeName].dataProperties :
                  metadata[typeName].dataProperties[j].isConcurrencyProp}}

\* the call the store reports on in this step
ReportedCall == CHOOSE c \in calls : c \notin calls'

\* C8: an update the store reports as matching nothing adds exactly one errors
\* entry, of status 404, with the entity's key and state; its message carries
\* the concurrency annotation exactly when the entity's type declares a
\* concurrency property, and then the update's criteria held that property's
\* original value.
C8_UpdateNotFound ==
    [][StoreReported("update", "none") =>
          LET ix == Last(reported').ix
              fields == ConcurrencyFields(aspect[ix].entityTypeName)
          IN /\ GainsError(ErrorEntry(ix, 404,
                    IF fields # {}
                    THEN <<"Not updated. ", "Perhaps not found due to the concurrency check.">>
                    ELSE <<"Not updated. ">>))
             /\ \A n \in fields :
                    /\ n \in DOMAIN ReportedCall.doc[1].criteria
                    /\ ReportedCall.doc[1].criteria[n] = aspect[ix].originalValuesMap[1][n]]_vars

\* C8, witness: an update of a type with a concurrency property and one of a
\* type without were both reported as matching nothing
C8_Witness ==
    /\ Len(saveResult.errors) = 2
    /\ saveResult.errors[1].status = 404
    /\ saveResult.errors[2].status = 404
    /\ saveResult.errors[1].entityState = <<"Modified">>
    /\ saveResult.errors[2].entityState = <<"Modified">>
    /\ Len(saveResult.errors[1].message) # Len(saveResult.errors[2].message)

\* C9 as amended: a delete for which the store reports nothing removed adds
\* exactly one errors entry, of status 404, with the entity's key and state
\* Deleted, and its message never carries the concurrency annotation, whether
\* or not the entity's type declares a concurrency property.
C9_DeleteNotFound ==
    [][StoreReported("remove", "none") =>
          /\ GainsError(ErrorEntry(Last(reported').ix, 404,
                 <<"Not deleted; may have been deleted previously.">>))
          /\ DOMAIN ReportedCall.doc[1].criteria = {"_id"}]_vars

\* C9, witness: the delete of an entity whose type declares a concurrency
\* property was reported as removing nothing
C9_Witness ==
    /\ Len(saveResult.errors) = 1
    /\ saveResult.errors[1].status = 404
    /\ saveResult.errors[1].entityState = <<"Deleted">>
    /\ saveResult.errors[1].entityKey # <<>>
    /\ ConcurrencyFields(saveResult.errors[1].entityKey[1].entityTypeName) # {}

\* C9 as stated: the errors entry of such a delete carries the concurrency
\* annotation exactly when the entity's type declares a concurrency property.
C9_DeleteAnnotatedLikeUpdate ==
    [][StoreReported("remove", "none") =>
          GainsError(ErrorEntry(Last(reported').ix, 404,
              IF ConcurrencyFields(aspect[Last(reported').ix].entityTypeName) # {}
              THEN <<"Not deleted; may have been deleted previously.",
                     " Perhaps not found due to the concurrency check.">>
              ELSE <<"Not deleted; may have been deleted previously.">>))]_vars

\* the success lists of a saveResult are the handler's lists
HoldsSuccessLists(sr) ==
    /\ sr.insertedKeys = insertedKeys'
    /\ sr.updatedKeys = updatedKeys'
    /\ sr.deletedKeys = deletedKeys'
    /\ sr.keyMappings = keyMappings'
    /\ sr.entitiesCreatedOnServer = entitiesCreatedOnServer'

\* _invokeCompletedCallback runs `done` in this step, the save not being over
Finalizes ==
    /\ afterCalls' = afterCalls + 1
    /\ ~isDone
    /\ afterSaveEntities.defined =>
           (afterSaveEntities.script # <<>> /\ Head(afterSaveEntities.script) = "done")

\* C10: at finalization the terminal callback receives (null, saveResult) if
\* and only if saveResult.errors is empty; otherwise it receives an error of
\* statusCode 400 whose saveResult is the whole SaveResult, success lists
\* included.
C10_Finalization ==
    [][Finalizes =>
          /\ Len(callbackLog') > Len(callbackLog)
          /\ LET e == callbackLog'[Len(callbackLog) + 1] IN
             IF e.error = <<>>
             THEN /\ e.saveResult # <<>>
                  /\ e.saveResult[1].errors = <<>>
                  /\ HoldsSuccessLists(e.saveResult[1])
             ELSE /\ e.saveResult = <<>>
                  /\ e.error[1].statusCode = 400
                  /\ e.error[1].message = <<"Some entities were not saved; see the errors array.">>
                  /\ e.error[1].saveResult # <<>>
                  /\ e.error[1].saveResult[1].errors # <<>>
                  /\ e.error[1].saveResult[1].errors =
                         SubSeq(saveResult'.errors, 1, Len(e.error[1].saveResult[1].errors))
                  /\ HoldsSuccessLists(e.error[1].saveResult[1])]_vars

\* C10, witness: a save with one insert done and one failed was finalized
C10_Witness ==
    /\ Len(callbackLog) = 1
    /\ callbackLog[1].error # <<>>
    /\ callbackLog[1].error[1].statusCode = 400
    /\ callbackLog[1].error[1].saveResult # <<>>
    /\ Len(callbackLog[1].error[1].saveResult[1].insertedKeys) = 1
    /\ Len(callbackLog[1].error[1].saveResult[1].errors) = 1

\* the request has no entity, or beforeSaveEntity rejects every entity of it,
\* and no entity was registered on the server
NothingToSave ==
    /\ Registered = {}
    /\ \A i \in 1 .. Len(reqBody) :
           beforeSaveEntity.defined /\ beforeSaveEntity.verdict[i] = "skip"

\* a SaveResult whose five lists and errors are empty
EmptySaveResult(sr) ==
    /\ sr.insertedKeys = <<>>
    /\ sr.updatedKeys = <<>>
    /\ sr.deletedKeys = <<>>
    /\ sr.keyMappings = <<>>
    /\ sr.entitiesCreatedOnServer = <<>>
    /\ sr.errors = <<>>

\* C11: a batch with nothing to save (no entity, or every entity rejected by
\* beforeSaveEntity), saved under no interceptor or under interceptors that
\* invoke their continuation once, issues no store call and delivers the
\* terminal callback once, with success and an empty SaveResult.
C11_EmptyBatch ==
    (NothingToSave /\ HooksCooperate) =>
        /\ issued = {}
        /\ Len(callbackLog) <= 1
        /\ Quiescent =>
              /\ Len(callbackLog) = 1
              /\ callbackLog[1].error = <<>>
              /\ callbackLog[1].saveResult # <<>>
              /\ EmptySaveResult(callbackLog[1].saveResult[1])

\* C11, witness: every entity of a request of two was rejected, and the save
\* is over
C11_Witness ==
    /\ Len(reqBody) = 2
    /\ NothingToSave
    /\ Quiescent
    /\ Len(callbackLog) = 1

\* the five lists of a saveResult are the handler's lists
HoldsDelivered(sr) ==
    /\ sr.insertedKeys = insertedKeys
    /\ sr.updatedKeys = updatedKeys
    /\ sr.deletedKeys = deletedKeys
    /\ sr.keyMappings = keyMappings
    /\ sr.entitiesCreatedOnServer = entitiesCreatedOnServer

\* the SaveResult the terminal callback was handed in delivery e, if any
Delivered(e) == IF e.error = <<>> THEN e.saveResult ELSE e.error[1].saveResult

\* C12: once the terminal callback has been invoked, nothing that happens
\* later, be it a store callback handled afterwards or an exception thrown by
\* the callback, changes saveResult: its five lists and its errors keep the
\* value they had at delivery.  (Stated for a handler without interceptors.)
C12_ResultFrozenOnceDone ==
    (~beforeSaveEntities.defined /\ ~afterSaveEntities.defined) =>
        \A i \in 1 .. Len(callbackLog) :
            Delivered(callbackLog[i]) # <<>> =>
                /\ HoldsDelivered(Delivered(callbackLog[i])[1])
                /\ Delivered(callbackLog[i])[1].errors = saveResult.errors

\* the number of operations of a type-group
GroupSize(cd) == Len(cd.inserts) + Len(cd.updates) + Len(cd.deletes)

\* C13: when db.collection fails for a type-group of a save that is not over,
\* none of the group's operations is issued, exactly one errors entry, without
\* entity key, is recorded for the group, and _saveCountPending goes down by
\* the number of operations of the group.
C13_CollectionFailureAccounting ==
    [][(StoreReported("collection", "error") /\ ~isDone) =>
          /\ issued' = issued
          /\ Len(saveResult'.errors) = Len(saveResult.errors) + 1
          /\ Last(saveResult'.errors).entityKey = <<>>
          /\ saveCountPending' = saveCountPending - GroupSize(ReportedCall.cd[1])]_vars

\* the failures the store has reported
Failures(r) == {i \in 1 .. Len(r) : r[i].outcome # "ok"}

AfterThrow == [hook |-> "afterSaveEntities", step |-> "throw", inTry |-> TRUE]

\* the terminal callback was handed the interceptor's error in delivery e:
\* message wrapped with the interceptor's name, the SaveResult attached
AfterHookErrorDelivered(e) ==
    /\ e.saveResult = <<>>
    /\ e.error # <<>>
    /\ e.error[1].message = <<"Save failed in 'afterSaveEntities' with error '",
                              "afterSaveEntities failed", "'">>
    /\ e.error[1].saveResult # <<>>
    /\ HoldsDelivered(e.error[1].saveResult[1])
    /\ e.error[1].saveResult[1].errors = saveResult.errors

\* C15 as amended: if afterSaveEntities throws before it has invoked done or
\* _raiseError, the terminal callback is invoked once, with the interceptor's
\* error, wrapped with the interceptor's name and carrying the SaveResult
\* built so far, and no success is delivered.
C15_ThrowBeforeDone ==
    (\E i \in 1 .. Len(hookLog) :
        /\ hookLog[i] = AfterThrow
        /\ \A j \in 1 .. (i - 1) : hookLog[j].hook = "beforeSaveEntities") =>
        /\ Len(callbackLog) = 1
        /\ AfterHookErrorDelivered(callbackLog[1])

\* C15, witness: the interceptor threw after the request's only operation had
\* failed, and the callback has its error
C15_Witness ==
    /\ hookLog = <<AfterThrow>>
    /\ Len(reported) = 2
    /\ Len(saveResult.errors) = 1
    /\ Len(callbackLog) = 1
    /\ AfterHookErrorDelivered(callbackLog[1])

\* C15 as stated: if afterSaveEntities throws, at whatever point, the terminal
\* callback is invoked with the interceptor's error and no success is
\* delivered.
C15_ThrowAtAnyPoint ==
    (\E i \in 1 .. Len(hookLog) : hookLog[i] = AfterThrow) =>
        \A k \in 1 .. Len(callbackLog) : AfterHookErrorDelivered(callbackLog[k])

\* save() has called a beforeSaveEntity that throws on an entity of the request
PredicateThrew ==
    /\ pc # "new"
    /\ beforeSaveEntity.defined
    /\ \E i \in 1 .. Len(reqBody) : beforeSaveEntity.verdict[i] = "throw"

\* C16: if beforeSaveEntity throws on an entity, the terminal callback is
\* invoked once, with the thrown error, its message prefixed with the phase;
\* beforeSaveEntities is not invoked, saveCore does not run, no document is
\* prepared and no store call is issued.
C16_PredicateThrowAborts ==
    PredicateThrew =>
        /\ Len(callbackLog) = 1
        /\ callbackLog[1].error # <<>>
        /\ callbackLog[1].error[1].message =
               <<"save failed in 'beforeSaveEntity'", " with error: ", "beforeSaveEntity failed">>
        /\ callbackLog[1].saveResult = <<>>
        /\ hookLog = <<>>
        /\ run = 0
        /\ collectionSaveDocs = <<>>
        /\ issued = {}

\* C16, witness: the predicate threw on the second entity, the first being
\* in saveMap already, with a beforeSaveEntities interceptor installed
C16_Witness ==
    /\ PredicateThrew
    /\ beforeSaveEntities.defined
    /\ Len(reqBody) = 2
    /\ saveMap # <<>>
    /\ Len(callbackLog) = 1

\* the number of operations of the first n type-groups
OperationsOf(n) ==
    LET sum[i \in 0 .. Len(collectionSaveDocs)] ==
            IF i = 0 THEN 0 ELSE sum[i - 1] + GroupSize(collectionSaveDocs[i])
    IN sum[n]

\* the reports that went through _checkIfCompleted: every outcome of an
\* insert, update or remove, and the failure of db.collection
Handled(r) == Cardinality({i \in 1 .. Len(r) : r[i].op # "collection" \/ r[i].outcome = "error"})

\* the store reports on a call of a save that runs saveCore once and is not over
CallbackHandled ==
    /\ Len(reported') = Len(reported) + 1
    /\ run = 1
    /\ ~isDone

\* C17 as amended: whenever the outcome of a store call is handled,
\* _saveCountPending has been raised by the operations of every type-group
\* dispatched so far, which is every type-group once the dispatch loop is over,
\* and lowered by one for each outcome handled before; the step that brings it
\* to zero triggers finalization only if _allSaveCallsSent is true already.
C17_CounterRaisedPerGroup ==
    [][CallbackHandled =>
          /\ saveCountPending = OperationsOf(nextCd - 1) - Handled(reported)
          /\ pc = "idle" => nextCd - 1 = Len(collectionSaveDocs)
          /\ afterCalls' # afterCalls => (allSaveCallsSent /\ saveCountPending' = 0)]_vars

\* C17, witness: an outcome was handled inside the dispatch loop, between the
\* two type-groups of a request
C17_Witness ==
    /\ pc = "dispatching"
    /\ run = 1
    /\ Len(collectionSaveDocs) = 2
    /\ nextCd = 2
    /\ Handled(reported) = 1
    /\ saveCountPending = 0

\* C17 as stated: whenever the outcome of a store call is handled,
\* _saveCountPending has been raised to the number of operations of all
\* type-groups of the batch.
C17_CounterRaisedToTotal ==
    [][CallbackHandled =>
          saveCountPending = OperationsOf(Len(collectionSaveDocs)) - Handled(reported)]_vars

\* the documents of a type-group
DocsOf(cd) == cd.inserts \o cd.updates \o cd.deletes

\* every entity of saveMap has its document in the type-group of its type
AllPrepared ==
    /\ Len(collectionSaveDocs) = Len(saveMap)
    /\ \A t \in 1 .. Len(saveMap) :
           /\ collectionSaveDocs[t].entityTypeName = saveMap[t].name
           /\ \A j \in 1 .. Len(saveMap[t].list) :
                  \E k \in 1 .. Len(DocsOf(collectionSaveDocs[t])) :
                      DocsOf(collectionSaveDocs[t])[k].ix = saveMap[t].list[j]

\* _fixupFks has nothing left to do: running fixup() now changes no document
FixupFinished ==
    keyMappings # <<>> =>
        /\ ~Throws(fixup(this))
        /\ fixup(this).ents = ents
        /\ fixup(this).collectionSaveDocs = collectionSaveDocs

\* C18: when the first store call of the batch is issued, and ever after, the
\* documents of all entities of all types are prepared and _fixupFks has
\* finished: no fix-up remains to be applied to a prepared document.
C18_HardBarrier ==
    issued # {} => (AllPrepared /\ FixupFinished)

\* C18, witness: a call was issued for a request of two types in which a
\* foreign key was fixed up
C18_Witness ==
    /\ issued # {}
    /\ Len(saveMap) = 2
    /\ \E i \in 1 .. Len(possibleFixupMap) : MapHas(kmMap(this), possibleFixupMap[i].name)

\* how many times x occurs in seq
Occurrences(seq, x) == Cardinality({i \in 1 .. Len(seq) : seq[i] = x})

\* the success list of a document's kind in a SaveResult
SuccessList(sr, kind) ==
    CASE kind = "insert" -> sr.insertedKeys
      [] kind = "update" -> sr.updatedKeys
      [] OTHER -> sr.deletedKeys

\* document doc is accounted for exactly once in sr: its key is in the success
\* list of its kind, or one errors entry carries its key and state
AccountedOnce(sr, doc) ==
    LET key == aspect[doc.ix].entityKey[1]
        state == aspect[doc.ix].entityState
    IN /\ Occurrences(SuccessList(sr, doc.kind), key)
            + Cardinality({i \in 1 .. Len(sr.errors) :
                  /\ sr.errors[i].entityKey = <<key>>
                  /\ sr.errors[i].entityState = <<state>>}) = 1
       /\ \A other \in {"insert", "update", "delete"} \ {doc.kind} :
              Occurrences(SuccessList(sr, other), key) = 0

\* every db.collection of the save has succeeded
HandlesAcquired ==
    \A i \in 1 .. Len(reported) : reported[i].op = "collection" => reported[i].outcome = "ok"

\* C19: in a save that runs saveCore once and acquires every collection, the
\* SaveResult handed to the terminal callback at finalization accounts for
\* every prepared operation exactly once, whatever failed: its call was issued,
\* and either its entity key is in the success list of its kind or exactly one
\* errors entry carries its key and state, never both and never neither.
C19_FailSoftAccounting ==
    \A i \in 1 .. Len(callbackLog) :
        (callbackLog[i].run = 1 /\ run = 1 /\ HandlesAcquired
            /\ Delivered(callbackLog[i]) # <<>>) =>
            \A t \in 1 .. Len(collectionSaveDocs) :
                \A k \in 1 .. Len(DocsOf(collectionSaveDocs[t])) :
                    /\ \E c \in issued :
                           c.doc = <<DocsOf(collectionSaveDocs[t])[k]>> /\ c.cdi = t
                    /\ AccountedOnce(Delivered(callbackLog[i])[1],
                                     DocsOf(collectionSaveDocs[t])[k])

\* C19, witness: of the two operations of a request the update succeeded and
\* the delete failed, and the save was finalized
C19_Witness ==
    /\ Len(callbackLog) = 1
    /\ Delivered(callbackLog[1]) # <<>>
    /\ Len(Delivered(callbackLog[1])[1].updatedKeys) = 1
    /\ Len(Delivered(callbackLog[1])[1].errors) = 1
    /\ Delivered(callbackLog[1])[1].errors[1].entityState = <<"Deleted">>

\* the insert documents prepared for types with an auto-generated key
GeneratedInserts ==
    {d \in UNION {{collectionSaveDocs[t].inserts[k] : k \in 1 .. Len(collectionSaveDocs[t].inserts)} :
                     t \in 1 .. Len(collectionSaveDocs)} :
        metadata[aspect[d.ix].entityTypeName].autoGeneratedKeyType \notin {"", "None"}}

\* the key of the entity is one the server has generated
ServerKey(id) == PropertyKey(id)[1] \in {"newguid", "newhex"}

\* the keyMappings that lead to the key of entity ix
MappingsTo(ix) == {i \in 1 .. Len(keyMappings) : keyMappings[i].realValue = ents[ix].f["_id"]}

\* C20 as amended: for an Added entity whose type declares an auto-generated
\* key kind, prepEntity generates a new key whether or not the client supplied
\* one; a client key that is not null is not kept as the key of the insert
\* document but recorded as the tempValue of a keyMapping to the new key, and
\* a null client key gets no keyMapping.
C20_KeyAlwaysGenerated ==
    \A d \in GeneratedInserts :
        /\ ServerKey(ents[d.ix].f["_id"])
        /\ IF IsNullish(reqBody[d.ix].id)
           THEN MappingsTo(d.ix) = {}
           ELSE \E i \in MappingsTo(d.ix) :
                    /\ keyMappings[i].entityTypeName = aspect[d.ix].entityTypeName
                    /\ PropertyKey(keyMappings[i].tempValue) = PropertyKey(reqBody[d.ix].id)

\* C20, witness: a request with a keyed and a keyless Added entity of types
\* with generated keys was prepared
C20_Witness ==
    /\ Len(reqBody) = 2
    /\ Cardinality(GeneratedInserts) = 2
    /\ IsNullish(reqBody[1].id)
    /\ ~IsNullish(reqBody[2].id)
    /\ Len(keyMappings) = 1

\* C20 as stated: a new key is generated only when the client-supplied key is
\* null; a client key that is not null is kept as the key of the insert
\* document.
C20_ClientKeyKept ==
    \A d \in GeneratedInserts :
        IF IsNullish(reqBody[d.ix].id)
        THEN ServerKey(ents[d.ix].f["_id"])
        ELSE PropertyKey(ents[d.ix].f["_id"]) = PropertyKey(reqBody[d.ix].id)

\* entity ix of the request is Added under a client key that is not null and
\* differs from the key of its insert document
ClientKeyReplaced(ix) ==
    /\ reqBody[ix].state = "Added"
    /\ ~IsNullish(reqBody[ix].id)
    /\ PropertyKey(ents[ix].f["_id"]) # PropertyKey(reqBody[ix].id)

\* C21: once every entity of a batch is prepared, _keyMappings holds exactly
\* one entry for each Added entity whose client key, not null, differs from the
\* key of its insert document, with the entity's type, the client key as
\* tempValue and the document's key as realValue, and no other entry.
C21_KeyMappingsExact ==
    (pc # "new" /\ AllPrepared) =>
        /\ \A ix \in 1 .. Len(reqBody) :
               IF ClientKeyReplaced(ix)
               THEN /\ Cardinality(MappingsTo(ix)) = 1
                    /\ \A i \in MappingsTo(ix) :
                           /\ keyMappings[i].entityTypeName = reqBody[ix].typeName
                           /\ PropertyKey(keyMappings[i].tempValue) = PropertyKey(reqBody[ix].id)
               ELSE MappingsTo(ix) = {}
        /\ Len(keyMappings) = Cardinality({ix \in 1 .. Len(reqBody) : ClientKeyReplaced(ix)})

\* C21, witness: a request with an Added entity whose key was replaced and a
\* Modified entity was prepared
C21_Witness ==
    /\ pc # "new"
    /\ AllPrepared
    /\ Len(reqBody) = 2
    /\ ClientKeyReplaced(1)
    /\ reqBody[2].state = "Modified"
    /\ Len(keyMappings) = 1

\* the message holds the text
Mentions(message, text) == \E j \in DOMAIN message : message[j] = text

\* the first entity of the request is an Added one whose ownerId, declared a
\* MongoObjectId, holds a string that is no ObjectId, and nothing stops the
\* save before its data is checked
ConversionFails ==
    /\ reqBody # <<>>
    /\ reqBody[1].state = "Added"
    /\ reqBody[1].ownerId = NoObjectId
    /\ \A n \in TypeNames : metadata[n].defined
    /\ \E i \in 1 .. Len(metadata[reqBody[1].typeName].dataProperties) :
           LET dp == metadata[reqBody[1].typeName].dataProperties[i] IN
               dp.name = "ownerId" /\ dp.dataType = "MongoObjectId"
    /\ beforeSaveEntity = NoBeforeSaveEntity
    /\ beforeSaveEntities = NoInterceptor

\* C22: when the conversion of a field to its declared data type fails in
\* _coerceData, the terminal callback receives an error of status 400 whose
\* message names the type, the entity's key, the field and the value.
C22_ConversionFailureReported ==
    (pc # "new" /\ ConversionFails) =>
        /\ callbackLog # <<>>
        /\ callbackLog[1].error # <<>>
        /\ LET err == callbackLog[1].error[1] IN
               /\ err.statusCode = 400
               /\ Mentions(err.message, reqBody[1].typeName)
               /\ Mentions(err.message, Show(reqBody[1].id))
               /\ Mentions(err.message, "ownerId")
               /\ Mentions(err.message, Show(reqBody[1].ownerId))

\* the update documents prepared so far
UpdateDocs ==
    UNION {{collectionSaveDocs[t].updates[k] : k \in 1 .. Len(collectionSaveDocs[t].updates)} :
              t \in 1 .. Len(collectionSaveDocs)}

\* the update of a Modified entity whose ownerId the client has set to null, in
\* a request where no key is replaced (so that _fixupFks rewrites no field)
NullsOwner(d) == reqBody[d.ix].ownerId = Null /\ keyMappings = <<>>

\* C23: the $set delta of an update without forceUpdate has no entry for a
\* changed field (one named in originalValuesMap) whose current value is null;
\* the $set delta of an update with forceUpdate keeps a null-valued field, with
\* value null.
C23_NullPolicyOnUpdates ==
    \A d \in UpdateDocs :
        NullsOwner(d) =>
            IF aspect[d.ix].forceUpdate
            THEN "ownerId" \in DOMAIN d.set /\ d.set["ownerId"] = Null
            ELSE "ownerId" \in DOMAIN aspect[d.ix].originalValuesMap[1]
                     => "ownerId" \notin DOMAIN d.set

\* the insert, update and remove calls the store has not reported on yet
Outstanding == {c \in calls : c.op # "collection"}

\* C24: _saveCountPending never drops below zero and is never less than the
\* number of operations issued to the store whose outcome is not handled yet.
C24_CounterCoversOutstanding ==
    /\ saveCountPending >= 0
    /\ saveCountPending >= Cardinality(Outstanding)

\* C24, witness: db.collection has failed for one type-group while an
\* operation of another is with the store
C24_Witness ==
    /\ ~isDone
    /\ Outstanding # {}
    /\ \E i \in 1 .. Len(reported) :
           reported[i].op = "collection" /\ reported[i].outcome = "error"

\* the insert, update and remove calls issued for entity ix of the request
IssuedFor(ix) == {c \in issued : c.op # "collection" /\ c.doc[1].ix = ix}

\* C25: within one save(), each entity of the request is issued to the store
\* at most once, even if the beforeSaveEntities hook invokes its continuation
\* more than once.
C25_AtMostOnceDispatch ==
    \A ix \in 1 .. Len(reqBody) : Cardinality(IssuedFor(ix)) <= 1

====
